---- MODULE Spec2Model ----
(***************************************************************************)
(* Approval intake and promotion engine of git-for-sql.                    *)
(*                                                                         *)
(* Text is a sequence of one-character strings; a script body is one such  *)
(* sequence with "\n" between its lines, as the JavaScript string is.      *)
(***************************************************************************)
EXTENDS Integers, Sequences, FiniteSets, TLC

-----------------------------------------------------------------------------
(* Text primitives (String.prototype methods used by the code)             *)

\* undefined / null for a text value: no text equals it
Undefined == <<"undefined">>

\* an optional boolean is the set of its values: {} is undefined
UndefinedBool == {}

UpperCaseLetters == <<"A","B","C","D","E","F","G","H","I","J","K","L","M","N","O","P","Q","R","S","T","U","V","W","X","Y","Z">>

LowerCaseLetters == <<"a","b","c","d","e","f","g","h","i","j","k","l","m","n","o","p","q","r","s","t","u","v","w","x","y","z">>

LetterIndex(tbl, c) == IF \E i \in DOMAIN tbl : tbl[i] = c THEN CHOOSE i \in DOMAIN tbl : tbl[i] = c ELSE 0

toLowerCase(s) == [i \in DOMAIN s |-> IF LetterIndex(UpperCaseLetters, s[i]) # 0 THEN LowerCaseLetters[LetterIndex(UpperCaseLetters, s[i])] ELSE s[i]]

toUpperCase(s) == [i \in DOMAIN s |-> IF LetterIndex(LowerCaseLetters, s[i]) # 0 THEN UpperCaseLetters[LetterIndex(LowerCaseLetters, s[i])] ELSE s[i]]

WhiteSpace == {" ", "\t", "\r", "\n"}

\* s.substring(i-1): the text from 1-based position i on
From(s, i) == IF i > Len(s) THEN << >> ELSE SubSeq(s, i, Len(s))

\* does p occur in s at 1-based position i
MatchesAt(s, i, p) == i >= 1 /\ i + Len(p) - 1 <= Len(s) /\ SubSeq(s, i, i + Len(p) - 1) = p

startsWith(s, p) == MatchesAt(s, 1, p)

endsWith(s, p) == MatchesAt(s, Len(s) - Len(p) + 1, p)

includes(s, p) == \E i \in 1..(Len(s) + 1) : MatchesAt(s, i, p)

\* s.indexOf(p, from), 1-based; 0 when p does not occur
IndexOfFrom(s, p, from) == IF \E i \in from..(Len(s) + 1) : MatchesAt(s, i, p) THEN CHOOSE i \in from..(Len(s) + 1) : MatchesAt(s, i, p) /\ \A j \in from..(i - 1) : ~MatchesAt(s, j, p) ELSE 0

\* s.replace(p, ""): the first occurrence of p removed
replaceFirst(s, p) == LET i == IndexOfFrom(s, p, 1) IN IF i = 0 THEN s ELSE SubSeq(s, 1, i - 1) \o From(s, i + Len(p))

\* first position >= i that holds no white space (Len(s)+1 when none): a greedy \s*
SkipWs(s, i) == IF \E j \in i..Len(s) : s[j] \notin WhiteSpace THEN CHOOSE j \in i..Len(s) : s[j] \notin WhiteSpace /\ \A k \in i..(j - 1) : s[k] \in WhiteSpace ELSE Len(s) + 1

\* last position that holds no white space (0 when none)
LastNonWs(s) == IF \E j \in 1..Len(s) : s[j] \notin WhiteSpace THEN CHOOSE j \in 1..Len(s) : s[j] \notin WhiteSpace /\ \A k \in (j + 1)..Len(s) : s[k] \in WhiteSpace ELSE 0

trim(s) == IF LastNonWs(s) = 0 THEN << >> ELSE SubSeq(s, SkipWs(s, 1), LastNonWs(s))

RECURSIVE splitLines(_)
\* content.split("\n")
splitLines(s) == LET i == IndexOfFrom(s, <<"\n">>, 1) IN IF i = 0 THEN <<s>> ELSE <<SubSeq(s, 1, i - 1)>> \o splitLines(From(s, i + 1))

\* a.slice(0, n)
sliceHead(a, n) == IF Len(a) > n THEN SubSeq(a, 1, n) ELSE a

\* path.split("/").pop() || path
RECURSIVE baseName(_)
baseName(path) == LET i == IndexOfFrom(path, <<"/">>, 1) IN IF i = 0 THEN path ELSE IF From(path, i + 1) = << >> THEN path ELSE LET b == baseName(From(path, i + 1)) IN IF b = << >> THEN path ELSE b

-----------------------------------------------------------------------------
(* Metadata parser: github.server.ts                                       *)

MetadataLines == 20

P_Author == <<"-","-"," ","A","u","t","h","o","r",":">>
P_Purpose == <<"-","-"," ","P","u","r","p","o","s","e",":">>
P_Target == <<"-","-"," ","T","a","r","g","e","t",":">>
P_Date == <<"-","-"," ","D","a","t","e",":">>
T_directprod == <<"d","i","r","e","c","t","p","r","o","d">>
T_direct_dash_prod == <<"d","i","r","e","c","t","-","p","r","o","d">>
T_direct_us_prod == <<"d","i","r","e","c","t","_","p","r","o","d">>
T_true == <<"t","r","u","e">>
T_yes == <<"y","e","s">>
T_one == <<"1">>
T_staging == <<"s","t","a","g","i","n","g">>
T_production == <<"p","r","o","d","u","c","t","i","o","n">>

\* the outcome of an attempt of the regular expression: whether it matched, and
\* capture group 1 (Undefined when the group took no part)
NoMatch == [ok |-> FALSE, g |-> Undefined]

\* (true|yes|1)? at position k of the line: the text the group captures
DirectProdGroup(line, low, k) ==
  IF MatchesAt(low, k, T_true) THEN SubSeq(line, k, k + 3)
  ELSE IF MatchesAt(low, k, T_yes) THEN SubSeq(line, k, k + 2)
  ELSE IF MatchesAt(low, k, T_one) THEN SubSeq(line, k, k)
  ELSE Undefined

\* :?\s*(true|yes|1)? at position k of the line
DirectProdTail(line, low, k) == DirectProdGroup(line, low, SkipWs(line, IF MatchesAt(line, k, <<":">>) THEN k + 1 ELSE k))

\* DirectProd\s*:?\s*(true|yes|1)? at position j of the line, whatever the case
DirectProdWord(line, low, j) ==
  IF ~MatchesAt(low, j, T_directprod) THEN NoMatch
  ELSE [ok |-> TRUE, g |-> DirectProdTail(line, low, SkipWs(line, j + Len(T_directprod)))]

\* Attempt of /--\s*DirectProd\s*:?\s*(true|yes|1)?/i anchored at position i
DirectProdMatchAt(line, i) ==
  IF ~MatchesAt(line, i, <<"-","-">>) THEN NoMatch
  ELSE DirectProdWord(line, toLowerCase(line), SkipWs(line, i + 2))

\* the attempt at the leftmost of the positions where an attempt succeeds
DirectProdFirst(line, hits) ==
  IF hits = {} THEN NoMatch ELSE DirectProdMatchAt(line, CHOOSE i \in hits : \A j \in hits : i <= j)

\* line.match(regex)
DirectProdMatch(line) == DirectProdFirst(line, {i \in 1..Len(line) : DirectProdMatchAt(line, i).ok})

\* match ? match[1]?.toLowerCase() === "true" || ... || !match[1] : false
DirectProdOf(m) ==
  IF m.ok
  THEN \/ (m.g # Undefined /\ toLowerCase(m.g) = T_true)
       \/ (m.g # Undefined /\ toLowerCase(m.g) = T_yes)
       \/ m.g = T_one
       \/ m.g = Undefined
  ELSE FALSE

\* value assigned to metadata.directProd for a line that mentions the marker
DirectProdValue(line) == DirectProdOf(DirectProdMatch(line))

EmptyMetadata == [author |-> Undefined, purpose |-> Undefined, target |-> Undefined, date |-> Undefined, directProd |-> UndefinedBool]

\* body of the for loop of parseSQLMetadata for one line
ParseLine(metadata, line) ==
  LET lowerLine == trim(toLowerCase(line))
  IN IF startsWith(line, P_Author) THEN [metadata EXCEPT !.author = trim(replaceFirst(line, P_Author))]
     ELSE IF startsWith(line, P_Purpose) THEN [metadata EXCEPT !.purpose = trim(replaceFirst(line, P_Purpose))]
     ELSE IF startsWith(line, P_Target) THEN [metadata EXCEPT !.target = trim(replaceFirst(line, P_Target))]
     ELSE IF startsWith(line, P_Date) THEN [metadata EXCEPT !.date = trim(replaceFirst(line, P_Date))]
     ELSE IF includes(lowerLine, T_directprod) \/ includes(lowerLine, T_direct_dash_prod) \/ includes(lowerLine, T_direct_us_prod)
          THEN [metadata EXCEPT !.directProd = {DirectProdValue(line)}]
     ELSE metadata

RECURSIVE ParseLines(_, _)
ParseLines(metadata, lines) == IF lines = << >> THEN metadata ELSE ParseLines(ParseLine(metadata, Head(lines)), Tail(lines))

parseSQLMetadata(content) == ParseLines(EmptyMetadata, sliceHead(splitLines(content), MetadataLines))

NullTarget == "null"

extractTargetDatabase(content) ==
  IF content # << >>
  THEN LET metadata == parseSQLMetadata(content)
       IN IF metadata.target # Undefined /\ metadata.target # << >>
          THEN LET target == toLowerCase(metadata.target)
               IN IF target = T_staging THEN "staging"
                  ELSE IF target = T_production THEN "production"
                  ELSE NullTarget
          ELSE NullTarget
  ELSE NullTarget

-----------------------------------------------------------------------------
(* Statement classification and row capture: executeSQL in db.server.ts    *)

MaxResultRows == 100

\* null / undefined for a number or a timestamp
NullInt == -1

RECURSIVE StripLineComments(_)
\* sql.replace(/--.*$/gm, "")
StripLineComments(s) ==
  IF s = << >> THEN << >>
  ELSE IF MatchesAt(s, 1, <<"-","-">>)
       THEN LET nl == IndexOfFrom(s, <<"\n">>, 1) IN IF nl = 0 THEN << >> ELSE StripLineComments(From(s, nl))
       ELSE <<Head(s)>> \o StripLineComments(Tail(s))

RECURSIVE StripBlockComments(_)
\* .replace(/\/\*[\s\S]*?\*\//g, "")
StripBlockComments(s) ==
  IF s = << >> THEN << >>
  ELSE IF MatchesAt(s, 1, <<"/","*">>) /\ IndexOfFrom(s, <<"*","/">>, 3) # 0
       THEN StripBlockComments(From(s, IndexOfFrom(s, <<"*","/">>, 3) + 2))
       ELSE <<Head(s)>> \o StripBlockComments(Tail(s))

sqlClean(sql) == toUpperCase(trim(StripBlockComments(StripLineComments(sql))))

T_SELECT == <<"S","E","L","E","C","T">>

isSelectQuery(sql) == startsWith(sqlClean(sql), T_SELECT)

\* variant: the rows are kept without a limit
ExecutionSuccess_NoLimit(sql, rows, rowCount) ==
  LET resultRows == IF isSelectQuery(sql) /\ Len(rows) > 0 THEN rows ELSE Undefined
      rowsAffected == IF isSelectQuery(sql) THEN Len(rows) ELSE rowCount
  IN [success |-> TRUE, rowsAffected |-> rowsAffected, error |-> "", resultRows |-> resultRows]

\* the success branch of executeSQL for a driver result {rows, rowCount};
\* resultRows = Undefined models an absent field
ExecutionSuccess(sql, rows, rowCount) ==
  LET resultRows == IF isSelectQuery(sql) /\ Len(rows) > 0 THEN rows ELSE Undefined
      limitedRows == IF resultRows # Undefined /\ Len(resultRows) > MaxResultRows THEN SubSeq(resultRows, 1, MaxResultRows) ELSE resultRows
      rowsAffected == IF isSelectQuery(sql) THEN Len(rows) ELSE rowCount
  IN [success |-> TRUE, rowsAffected |-> rowsAffected, error |-> "", resultRows |-> limitedRows]

\* the catch branch of executeSQL
ExecutionFailure(message) == [success |-> FALSE, rowsAffected |-> NullInt, error |-> message, resultRows |-> Undefined]

-----------------------------------------------------------------------------
(* Configuration: config.server.ts                                         *)

MinApprovals == 2

MergedPRLimit == 50

NoSecret == ""

-----------------------------------------------------------------------------
(* The review platform: pull requests, their reviews and files, and the    *)
(* content of the repository's default branch                              *)

A_sql == <<"s","q","l","/","a",".","s","q","l">>
B_sql == <<"s","q","l","/","b",".","s","q","l">>
C_sql == <<"c",".","s","q","l">>
Readme == <<"R","E","A","D","M","E",".","m","d">>
Ext_sql == <<".","s","q","l">>

\* "-- DirectProd\nSELECT 1"
BodyDirect == <<"-","-"," ","D","i","r","e","c","t","P","r","o","d","\n","S","E","L","E","C","T"," ","1">>
\* "UPDATE t"
BodyPlain == <<"U","P","D","A","T","E"," ","t">>
\* "-- Target: production\nselect 2"
BodyProd == <<"-","-"," ","T","a","r","g","e","t",":"," ","p","r","o","d","u","c","t","i","o","n","\n","s","e","l","e","c","t"," ","2">>

NotFound == <<"404">>

PRs == {1, 2, 3, 4, 5}

Review(u, st) == [user |-> u, state |-> st]

File(f, st) == [filename |-> f, status |-> st]

\* 1 adds a.sql with the bypass marker; 2 rewrites a.sql without it; 3 deletes
\* a.sql and adds b.sql next to a file that is no script; 4 has a single
\* approver; 5 adds a.sql and c.sql
PRData ==
  [p \in PRs |->
     IF p = 1 THEN [html_url |-> "pr/1",
                    reviews |-> <<Review("alice", "APPROVED"), Review("bob", "APPROVED")>>,
                    files |-> <<File(A_sql, "added")>>,
                    writes |-> (A_sql :> BodyDirect)]
     ELSE IF p = 2 THEN [html_url |-> "pr/2",
                    reviews |-> <<Review("bob", "APPROVED"), Review("alice", "APPROVED"), Review("bob", "CHANGES_REQUESTED")>>,
                    files |-> <<File(A_sql, "modified")>>,
                    writes |-> (A_sql :> BodyPlain)]
     ELSE IF p = 3 THEN [html_url |-> "pr/3",
                    reviews |-> <<Review("carol", "APPROVED"), Review("alice", "APPROVED")>>,
                    files |-> <<File(Readme, "modified"), File(A_sql, "removed"), File(B_sql, "added")>>,
                    writes |-> (Readme :> BodyPlain) @@ (A_sql :> NotFound) @@ (B_sql :> BodyProd)]
     ELSE IF p = 5 THEN [html_url |-> "pr/5",
                    reviews |-> <<Review("carol", "APPROVED"), Review("bob", "APPROVED")>>,
                    files |-> <<File(A_sql, "added"), File(C_sql, "added")>>,
                    writes |-> (A_sql :> BodyPlain) @@ (C_sql :> BodyDirect)]
     ELSE [html_url |-> "pr/4",
                    reviews |-> <<Review("alice", "COMMENTED"), Review("alice", "APPROVED"), Review("alice", "APPROVED")>>,
                    files |-> <<File(C_sql, "added")>>,
                    writes |-> (C_sql :> BodyDirect)]]

Paths == {A_sql, B_sql, C_sql, Readme}

Range(a) == {a[i] : i \in DOMAIN a}

RECURSIVE Dedup(_)
\* [...new Set(a)]: first occurrences, in order
Dedup(a) == IF a = << >> THEN << >> ELSE LET d == Dedup(SubSeq(a, 1, Len(a) - 1)) IN IF \E i \in DOMAIN d : d[i] = a[Len(a)] THEN d ELSE Append(d, a[Len(a)])

\* variant: one entry per approving review
getPRApprovers_PerReview(prNumber, fails) ==
  IF fails THEN << >>
  ELSE LET IsApproved(r) == r.state = "APPROVED"
           approved == SelectSeq(PRData[prNumber].reviews, IsApproved)
       IN [i \in DOMAIN approved |-> approved[i].user]

\* getPRApprovers: the try branch, and [] from the catch branch
getPRApprovers(prNumber, fails) ==
  IF fails THEN << >>
  ELSE LET IsApproved(r) == r.state = "APPROVED"
           approved == SelectSeq(PRData[prNumber].reviews, IsApproved)
       IN Dedup([i \in DOMAIN approved |-> approved[i].user])

\* getPRFiles: the try branch, and [] from the catch branch
getPRFiles(prNumber, fails) == IF fails THEN << >> ELSE PRData[prNumber].files

\* files.filter(f => f.filename.endsWith(".sql") && f.status !== "removed")
sqlFilesOf(files) == LET Keep(f) == endsWith(f.filename, Ext_sql) /\ f.status # "removed" IN SelectSeq(files, Keep)

\* fetchScriptFromGitHub: the content at the default branch, null (NotFound) when
\* the path is missing or the call fails
fetchScriptFromGitHub(repository, path, fails) == IF fails THEN NotFound ELSE repository[path]

\* getMergedPRs(limit): closed pull requests by update time, newest first, one page
\* of limit entries, of which the merged ones are kept
getMergedPRs(closedList, mergedSet, limit, fails) ==
  IF fails THEN << >>
  ELSE LET page == sliceHead(closedList, limit)
           IsMerged(p) == p \in mergedSet
       IN SelectSeq(page, IsMerged)

-----------------------------------------------------------------------------
(* Webhook authentication: verifyWebhookSignature                          *)

\* createHmac("sha256", secret).update(payload).digest("hex"), a keyed hash
\* taken as injective in the key and the payload
HmacSha256(secret, payload) == <<"hmac", secret, payload>>

NoSignature == << >>

\* variant: a delivery that claims no signature passes
verifyWebhookSignature_Unsigned(secret, payload, signature) ==
  IF secret = NoSecret THEN TRUE
  ELSE signature = NoSignature \/ signature = <<"sha256=">> \o HmacSha256(secret, payload)

\* verifyWebhookSignature: true without a secret, else whether the signature is
\* "sha256=" followed by the digest
verifyWebhookSignature(secret, payload, signature) ==
  IF secret = NoSecret THEN TRUE
  ELSE signature = <<"sha256=">> \o HmacSha256(secret, payload)

\* raw request bodies and what JSON.parse makes of them
Bodies == {"not json", "null", "opened 1", "closed 4", "merged 1", "merged 2", "merged 3", "merged 4"}

SyntaxError == [action |-> "SyntaxError", merged |-> FALSE, number |-> 0]

\* the value null, which is no object: reading a property of it throws
JsonNull == [action |-> "null", merged |-> FALSE, number |-> 0]

JSONparse(body) ==
  IF body = "null" THEN JsonNull
  ELSE IF body = "opened 1" THEN [action |-> "opened", merged |-> FALSE, number |-> 1]
  ELSE IF body = "closed 4" THEN [action |-> "closed", merged |-> FALSE, number |-> 4]
  ELSE IF body = "merged 1" THEN [action |-> "closed", merged |-> TRUE, number |-> 1]
  ELSE IF body = "merged 2" THEN [action |-> "closed", merged |-> TRUE, number |-> 2]
  ELSE IF body = "merged 3" THEN [action |-> "closed", merged |-> TRUE, number |-> 3]
  ELSE IF body = "merged 4" THEN [action |-> "closed", merged |-> TRUE, number |-> 4]
  ELSE SyntaxError

-----------------------------------------------------------------------------
(* Bounds of the model                                                     *)

\* upserts attempted on approved_scripts (values drawn from its id sequence)
MaxSerial == 3

\* rows of sql_execution_log
MaxLog == 1

\* readings of NOW()
MaxClock == 2

-----------------------------------------------------------------------------
(* State                                                                   *)

VARIABLES
  webhookSecret,     \* config.github.webhookSecret
  repository,        \* path -> content at the default branch of the scripts repository
  closedPRs,         \* closed pull requests, most recently updated first
  mergedSet,         \* the closed pull requests that were merged
  approved_scripts,  \* table approved_scripts: a set of rows
  scriptIdSeq,       \* next value of approved_scripts.id
  execution_log,     \* table sql_execution_log: rows in insertion order
  now,               \* NOW() of the audit database
  wh,                \* the webhook delivery being handled (api.webhook.github action)
  sync,              \* the sync pass being run (syncScriptsFromGitHub)
  ex,                \* the execution request being handled (scripts.$id action)
  passes,            \* history: the sync passes that ran undisturbed
  staged             \* history: the texts that ran successfully on staging

vars == <<webhookSecret, repository, closedPRs, mergedSet, approved_scripts, scriptIdSeq, execution_log, now, wh, sync, ex, passes, staged>>

envVars == <<webhookSecret, repository, closedPRs, mergedSet>>

storeVars == <<approved_scripts, scriptIdSeq, execution_log>>

-----------------------------------------------------------------------------
(* The audit store: db.server.ts, audit.server.ts                          *)

NoRow == [id |-> 0]

\* variant: the statement without its conflict target
RowsNamed_NoConflict(rows, name) == {}

\* the rows the conflict target (script_name) of addApprovedScript's INSERT selects
RowsNamed(rows, name) == {r \in rows : r.script_name = name}

\* variant: DO UPDATE without approved_at = NOW()
UpsertRows_KeepStamp(rows, id, data, ts) ==
  IF RowsNamed(rows, data.scriptName) # {}
  THEN {IF r.script_name = data.scriptName
        THEN [r EXCEPT !.script_content = data.scriptContent,
                       !.github_pr_url = data.githubPrUrl,
                       !.approvers = data.approvers,
                       !.direct_prod = data.directProd]
        ELSE r : r \in rows}
  ELSE rows \cup {[id |-> id,
                   script_name |-> data.scriptName,
                   script_content |-> data.scriptContent,
                   target_database |-> data.targetDatabase,
                   github_pr_url |-> data.githubPrUrl,
                   approvers |-> data.approvers,
                   approved_at |-> ts,
                   staging_executed |-> FALSE,
                   staging_executed_at |-> NullInt,
                   production_executed |-> FALSE,
                   production_executed_at |-> NullInt,
                   direct_prod |-> data.directProd]}

\* variant: a plain INSERT into a table without the unique script_name
UpsertRows_InsertOnly(rows, id, data, ts) ==
  rows \cup {[id |-> id,
              script_name |-> data.scriptName,
              script_content |-> data.scriptContent,
              target_database |-> data.targetDatabase,
              github_pr_url |-> data.githubPrUrl,
              approvers |-> data.approvers,
              approved_at |-> ts,
              staging_executed |-> FALSE,
              staging_executed_at |-> NullInt,
              production_executed |-> FALSE,
              production_executed_at |-> NullInt,
              direct_prod |-> data.directProd]}

\* INSERT ... ON CONFLICT (script_name) DO UPDATE of addApprovedScript: the table
\* after the statement
UpsertRows(rows, id, data, ts) ==
  IF RowsNamed(rows, data.scriptName) # {}
  THEN {IF r.script_name = data.scriptName
        THEN [r EXCEPT !.script_content = data.scriptContent,
                       !.github_pr_url = data.githubPrUrl,
                       !.approvers = data.approvers,
                       !.direct_prod = data.directProd,
                       !.approved_at = ts]
        ELSE r : r \in rows}
  ELSE rows \cup {[id |-> id,
                   script_name |-> data.scriptName,
                   script_content |-> data.scriptContent,
                   target_database |-> data.targetDatabase,
                   github_pr_url |-> data.githubPrUrl,
                   approvers |-> data.approvers,
                   approved_at |-> ts,
                   staging_executed |-> FALSE,
                   staging_executed_at |-> NullInt,
                   production_executed |-> FALSE,
                   production_executed_at |-> NullInt,
                   direct_prod |-> data.directProd]}

\* addApprovedScript: true and the statement's effect, or false from the catch
\* branch; the id sequence advances with every statement that reaches the table
addApprovedScript(data, fails, success) ==
  IF fails
  THEN /\ success = FALSE
       /\ UNCHANGED <<approved_scripts, scriptIdSeq>>
  ELSE /\ success = TRUE
       /\ approved_scripts' = UpsertRows(approved_scripts, scriptIdSeq, data, now)
       /\ scriptIdSeq' = scriptIdSeq + 1

\* getExistingScriptNames
getExistingScriptNames(rows, fails) == IF fails THEN {} ELSE {r.script_name : r \in rows}

\* getScriptById
getScriptById(rows, id, fails) ==
  IF fails \/ ~\E r \in rows : r.id = id THEN NoRow ELSE CHOOSE r \in rows : r.id = id

\* SELECT staging_executed, direct_prod ... WHERE id = $1: what the query of
\* canExecuteOnProduction yields
NoGuardRead == [read |-> "none", staging_executed |-> FALSE, direct_prod |-> FALSE]

GuardQuery(rows, scriptId, fails) ==
  IF fails THEN [NoGuardRead EXCEPT !.read = "failed"]
  ELSE IF ~\E r \in rows : r.id = scriptId THEN [NoGuardRead EXCEPT !.read = "empty"]
  ELSE LET script == CHOOSE r \in rows : r.id = scriptId
       IN [read |-> "row", staging_executed |-> script.staging_executed, direct_prod |-> script.direct_prod]

\* variant: any script found may run on production
canExecuteOnProduction_AnyRow(rows, scriptId, fails) ==
  LET script == GuardQuery(rows, scriptId, fails)
  IN IF script.read = "failed" THEN FALSE
     ELSE IF script.read = "empty" THEN FALSE
     ELSE TRUE

\* canExecuteOnProduction
canExecuteOnProduction(rows, scriptId, fails) ==
  LET script == GuardQuery(rows, scriptId, fails)
  IN IF script.read = "failed" THEN FALSE
     ELSE IF script.read = "empty" THEN FALSE
     ELSE script.staging_executed = TRUE \/ script.direct_prod = TRUE

\* variant: a production run takes the place of the staging run
StatusRows_Exclusive(rows, scriptId, targetDatabase, ts) ==
  IF targetDatabase = "staging"
  THEN {IF r.id = scriptId THEN [r EXCEPT !.staging_executed = TRUE, !.staging_executed_at = ts] ELSE r : r \in rows}
  ELSE IF targetDatabase = "production"
  THEN {IF r.id = scriptId THEN [r EXCEPT !.staging_executed = FALSE, !.production_executed = TRUE, !.production_executed_at = ts] ELSE r : r \in rows}
  ELSE rows

\* UPDATE approved_scripts SET ... WHERE id = $1 of updateScriptExecutionStatus
StatusRows(rows, scriptId, targetDatabase, ts) ==
  IF targetDatabase = "staging"
  THEN {IF r.id = scriptId THEN [r EXCEPT !.staging_executed = TRUE, !.staging_executed_at = ts] ELSE r : r \in rows}
  ELSE IF targetDatabase = "production"
  THEN {IF r.id = scriptId THEN [r EXCEPT !.production_executed = TRUE, !.production_executed_at = ts] ELSE r : r \in rows}
  ELSE rows

\* variant: the status update sets the flags of both environments
updateScriptExecutionStatus_Both(scriptId, targetDatabase, fails) ==
  approved_scripts' = IF fails THEN approved_scripts ELSE StatusRows(StatusRows(approved_scripts, scriptId, "staging", now), scriptId, "production", now)

\* updateScriptExecutionStatus: the statement's effect, or nothing from the catch branch
updateScriptExecutionStatus(scriptId, targetDatabase, fails) ==
  approved_scripts' = IF fails THEN approved_scripts ELSE StatusRows(approved_scripts, scriptId, targetDatabase, now)

\* x || null of logExecution
OrNullInt(x) == IF x = 0 \/ x = NullInt THEN NullInt ELSE x

\* the row logExecution inserts: the columns its INSERT names
LogRow(data, ts) ==
  [script_name |-> data.scriptName,
   script_content |-> data.scriptContent,
   executed_by |-> data.executedBy,
   target_database |-> data.targetDatabase,
   status |-> data.status,
   rows_affected |-> OrNullInt(data.rowsAffected),
   error_message |-> data.errorMessage,
   github_pr_url |-> data.githubPrUrl,
   approvers |-> data.approvers,
   result_data |-> data.resultData]

\* variant: only successful attempts are logged
logExecution_SuccessOnly(data, fails) ==
  execution_log' = IF fails \/ data.status = "error" THEN execution_log ELSE Append(execution_log, LogRow(data, now))

\* logExecution: the INSERT, or nothing from the catch branch
logExecution(data, fails) ==
  execution_log' = IF fails THEN execution_log ELSE Append(execution_log, LogRow(data, now))

\* pools[target] of executeSQL: the pool the statement goes to, "none" when the
\* pools object has no such member
PoolNames == {"staging", "production", "audit"}

PoolOf(target) == IF target \in PoolNames THEN target ELSE "none"

-----------------------------------------------------------------------------
(* History of sync passes: prior holds when the last pass ran from start to    *)
(* end with no pull request merged and no other writer of the registry, since  *)
(* when nothing of the kind happened either; registry is the registry as that  *)
(* pass left it; clean holds while the pass in progress is undisturbed         *)

NoPasses == [prior |-> FALSE, clean |-> FALSE, registry |-> {}]

Disturbed == NoPasses

-----------------------------------------------------------------------------
(* The review platform changes: a pull request is merged or closed         *)

\* p is merged: its changes reach the default branch
MergePR(p) ==
  /\ p \notin Range(closedPRs)
  /\ \A path \in DOMAIN PRData[p].writes : \A i \in DOMAIN PRData[p].files : (PRData[p].files[i].filename = path /\ PRData[p].files[i].status # "added") => repository[path] # NotFound
  /\ closedPRs' = <<p>> \o closedPRs
  /\ mergedSet' = mergedSet \cup {p}
  /\ repository' = [path \in Paths |-> IF path \in DOMAIN PRData[p].writes THEN PRData[p].writes[path] ELSE repository[path]]
  /\ UNCHANGED <<webhookSecret, storeVars, now, wh, sync, ex, staged>>
  /\ passes' = Disturbed

\* p is closed without being merged
ClosePR(p) ==
  /\ p \notin Range(closedPRs)
  /\ closedPRs' = <<p>> \o closedPRs
  /\ UNCHANGED <<webhookSecret, repository, mergedSet, storeVars, now, wh, sync, ex, passes, staged>>

\* time passes on the audit database
Tick ==
  /\ now < MaxClock
  /\ now' = now + 1
  /\ UNCHANGED <<envVars, staged, storeVars, wh, sync, ex, passes>>

-----------------------------------------------------------------------------
(* Webhook ingestion: routes/api.webhook.github.ts, action                 *)

\* method, payload and signature are the request as it arrived
WhIdle == [pc |-> "idle", method |-> "", payload |-> "", signature |-> NoSignature, prNumber |-> 0, prUrl |-> "", approvers |-> << >>, queue |-> << >>, content |-> << >>, results |-> << >>, status |-> 0, message |-> "", apiCalls |-> 0]

\* return json({...}, {status})
WhResponse(w, status, message) == [w EXCEPT !.pc = "done", !.status = status, !.message = message]

\* the end of the body of the for loop over sqlFiles
WhNextFile(w) ==
  IF Len(w.queue) > 1
  THEN [w EXCEPT !.pc = "fetch", !.queue = Tail(w.queue), !.content = << >>]
  ELSE WhResponse([w EXCEPT !.queue = << >>, !.content = << >>], 200, "Webhook processed successfully")

\* a request arrives: lines 8-81, up to the list of SQL files of the pull request;
\* data.action of line 37 throws on null, outside any try, and the framework
\* answers 500
WebhookReceive(method, payload, signature, failApprovers, failFiles) ==
  /\ wh.pc = "idle"
  /\ JSONparse(payload).merged => JSONparse(payload).number \in mergedSet
  /\ (JSONparse(payload).action = "closed" /\ ~JSONparse(payload).merged) => JSONparse(payload).number \in Range(closedPRs) \ mergedSet
  /\ LET data == JSONparse(payload)
         approvers == getPRApprovers(data.number, failApprovers)
         files == getPRFiles(data.number, failFiles)
         sqlFiles == sqlFilesOf(files)
         req == [wh EXCEPT !.method = method, !.payload = payload, !.signature = signature]
     IN wh' = IF method # "POST" THEN WhResponse(req, 405, "Method not allowed")
              ELSE IF ~verifyWebhookSignature(webhookSecret, payload, signature) THEN WhResponse(req, 401, "Invalid signature")
              ELSE IF data = SyntaxError THEN WhResponse(req, 400, "Invalid JSON")
              ELSE IF data = JsonNull THEN WhResponse(req, 500, "TypeError")
              ELSE IF data.action # "closed" \/ ~data.merged THEN WhResponse(req, 200, "Not a merged PR, ignoring")
              ELSE IF Len(approvers) < MinApprovals
                   THEN WhResponse([req EXCEPT !.prNumber = data.number, !.prUrl = PRData[data.number].html_url, !.approvers = approvers, !.apiCalls = 1], 200, "Insufficient approvals")
              ELSE IF Len(sqlFiles) = 0
                   THEN WhResponse([req EXCEPT !.prNumber = data.number, !.prUrl = PRData[data.number].html_url, !.approvers = approvers, !.apiCalls = 2], 200, "No SQL files found in PR")
              ELSE [req EXCEPT !.pc = "fetch", !.prNumber = data.number, !.prUrl = PRData[data.number].html_url, !.approvers = approvers, !.apiCalls = 2, !.queue = sqlFiles]
  /\ UNCHANGED <<envVars, staged, storeVars, now, sync, ex, passes>>

\* lines 85-94: the content of the next file is fetched
WebhookFetch(fails) ==
  /\ wh.pc = "fetch"
  /\ LET file == Head(wh.queue)
         content == fetchScriptFromGitHub(repository, file.filename, fails)
     IN wh' = IF content = NotFound \/ content = << >>
              THEN WhNextFile([wh EXCEPT !.apiCalls = @ + 1])
              ELSE [wh EXCEPT !.pc = "upsert", !.content = content, !.apiCalls = @ + 1]
  /\ UNCHANGED <<envVars, staged, storeVars, now, sync, ex, passes>>

\* lines 96-125: metadata, upsert and the file's entry of the summary
WebhookUpsert(fails) ==
  /\ wh.pc = "upsert"
  /\ fails \/ scriptIdSeq <= MaxSerial
  /\ LET file == Head(wh.queue)
         metadata == parseSQLMetadata(wh.content)
         directProd == metadata.directProd = {TRUE}
         target == extractTargetDatabase(wh.content)
         targetDb == IF target = NullTarget THEN "staging" ELSE target
     IN \E success \in BOOLEAN :
          /\ addApprovedScript([scriptName |-> baseName(file.filename),
                                scriptContent |-> wh.content,
                                targetDatabase |-> targetDb,
                                githubPrUrl |-> wh.prUrl,
                                approvers |-> wh.approvers,
                                directProd |-> directProd], fails, success)
          /\ wh' = WhNextFile([wh EXCEPT !.results = Append(wh.results, [filename |-> file.filename, success |-> success, targetDatabase |-> targetDb])])
  /\ UNCHANGED <<envVars, staged, execution_log, now, sync, ex>>
  /\ passes' = IF fails THEN passes ELSE Disturbed

\* the response has been sent
WebhookDone ==
  /\ wh.pc = "done"
  /\ wh' = WhIdle
  /\ UNCHANGED <<envVars, staged, storeVars, now, sync, ex, passes>>

-----------------------------------------------------------------------------
(* Full sync: syncScriptsFromGitHub in github.server.ts                    *)

ZeroStats == [synced |-> 0, skipped |-> 0, errors |-> 0]

\* startNames: the names the registry held when the pass started (history)
SyncIdle == [pc |-> "idle", startNames |-> {}, existingSet |-> {}, prs |-> << >>, approvers |-> << >>, queue |-> << >>, content |-> << >>, stats |-> ZeroStats]

\* variant: the end of a file's processing ends the pull request's
SyncNextFile_Abort(y) == [y EXCEPT !.pc = "pr", !.queue = << >>, !.content = << >>, !.prs = Tail(y.prs)]

\* the end of the body of the for loop over sqlFiles; after the last file the
\* for loop over mergedPRs moves on
SyncNextFile(y) ==
  IF Len(y.queue) > 1
  THEN [y EXCEPT !.pc = "file", !.queue = Tail(y.queue), !.content = << >>]
  ELSE [y EXCEPT !.pc = "pr", !.queue = << >>, !.content = << >>, !.prs = Tail(y.prs)]

\* lines 210-212: the names already in the registry
SyncStart(fails) ==
  /\ sync.pc = "idle"
  /\ sync' = [SyncIdle EXCEPT !.pc = "list", !.startNames = {r.script_name : r \in approved_scripts}, !.existingSet = getExistingScriptNames(approved_scripts, fails)]
  /\ UNCHANGED <<envVars, staged, storeVars, now, wh, ex>>
  /\ passes' = [passes EXCEPT !.clean = TRUE]

\* line 215: the merged pull requests
SyncList(fails) ==
  /\ sync.pc = "list"
  /\ sync' = [sync EXCEPT !.pc = "pr", !.prs = getMergedPRs(closedPRs, mergedSet, MergedPRLimit, fails)]
  /\ UNCHANGED <<envVars, staged, storeVars, now, wh, ex, passes>>

\* lines 218-242: approvers and files of the next pull request
SyncPR(failApprovers, failFiles) ==
  /\ sync.pc = "pr"
  /\ sync.prs # << >>
  /\ LET pr == Head(sync.prs)
         approvers == getPRApprovers(pr, failApprovers)
         sqlFiles == sqlFilesOf(getPRFiles(pr, failFiles))
     IN sync' = IF Len(approvers) < MinApprovals \/ Len(sqlFiles) = 0
                THEN [sync EXCEPT !.prs = Tail(sync.prs), !.stats.skipped = @ + 1]
                ELSE [sync EXCEPT !.pc = "file", !.approvers = approvers, !.queue = sqlFiles]
  /\ UNCHANGED <<envVars, staged, storeVars, now, wh, ex, passes>>

\* lines 245-262: the next file is skipped when its name is known, else fetched
SyncFile(fails) ==
  /\ sync.pc = "file"
  /\ LET file == Head(sync.queue)
         scriptName == baseName(file.filename)
         content == fetchScriptFromGitHub(repository, file.filename, fails)
     IN sync' = IF scriptName \in sync.existingSet
                THEN SyncNextFile([sync EXCEPT !.stats.skipped = @ + 1])
                ELSE IF content = NotFound \/ content = << >>
                THEN SyncNextFile([sync EXCEPT !.stats.errors = @ + 1])
                ELSE [sync EXCEPT !.pc = "upsert", !.content = content]
  /\ UNCHANGED <<envVars, staged, storeVars, now, wh, ex, passes>>

\* variant: the name is not added to the set of known names
SyncUpsert_NoAdd(fails) ==
  /\ sync.pc = "upsert"
  /\ fails \/ scriptIdSeq <= MaxSerial
  /\ LET file == Head(sync.queue)
         scriptName == baseName(file.filename)
         metadata == parseSQLMetadata(sync.content)
         directProd == metadata.directProd = {TRUE}
         target == extractTargetDatabase(sync.content)
         targetDb == IF target = NullTarget THEN "staging" ELSE target
     IN \E success \in BOOLEAN :
          /\ addApprovedScript([scriptName |-> scriptName,
                                scriptContent |-> sync.content,
                                targetDatabase |-> targetDb,
                                githubPrUrl |-> PRData[Head(sync.prs)].html_url,
                                approvers |-> sync.approvers,
                                directProd |-> directProd], fails, success)
          /\ sync' = IF success
                     THEN SyncNextFile([sync EXCEPT !.stats.synced = @ + 1])
                     ELSE SyncNextFile([sync EXCEPT !.stats.errors = @ + 1])
  /\ UNCHANGED <<envVars, staged, execution_log, now, wh, ex, passes>>

\* lines 264-291: metadata, upsert and the tallies
SyncUpsert(fails) ==
  /\ sync.pc = "upsert"
  /\ fails \/ scriptIdSeq <= MaxSerial
  /\ LET file == Head(sync.queue)
         scriptName == baseName(file.filename)
         metadata == parseSQLMetadata(sync.content)
         directProd == metadata.directProd = {TRUE}
         target == extractTargetDatabase(sync.content)
         targetDb == IF target = NullTarget THEN "staging" ELSE target
     IN \E success \in BOOLEAN :
          /\ addApprovedScript([scriptName |-> scriptName,
                                scriptContent |-> sync.content,
                                targetDatabase |-> targetDb,
                                githubPrUrl |-> PRData[Head(sync.prs)].html_url,
                                approvers |-> sync.approvers,
                                directProd |-> directProd], fails, success)
          /\ sync' = IF success
                     THEN SyncNextFile([sync EXCEPT !.stats.synced = @ + 1, !.existingSet = @ \cup {scriptName}])
                     ELSE SyncNextFile([sync EXCEPT !.stats.errors = @ + 1])
  /\ UNCHANGED <<envVars, staged, execution_log, now, wh, ex, passes>>

\* line 302: the pass returns its tallies
SyncReturn ==
  /\ sync.pc = "pr"
  /\ sync.prs = << >>
  /\ sync' = [sync EXCEPT !.pc = "done"]
  /\ UNCHANGED <<envVars, staged, storeVars, now, wh, ex>>
  /\ passes' = IF passes.clean THEN [prior |-> TRUE, clean |-> FALSE, registry |-> approved_scripts] ELSE Disturbed

\* the caller has taken the tallies
SyncDone ==
  /\ sync.pc = "done"
  /\ sync' = SyncIdle
  /\ UNCHANGED <<envVars, staged, storeVars, now, wh, ex, passes>>

-----------------------------------------------------------------------------
(* Execution request: routes/scripts.$id.tsx, action                       *)

Targets == {"staging", "production", "audit", "qa"}

Operators == {"dana", " "}

\* what the driver's pool.query returns or throws
DriverResults == {[ok |-> FALSE, rows |-> << >>, rowCount |-> 0], [ok |-> TRUE, rows |-> <<"r1", "r2">>, rowCount |-> 2]}

NoResult == [success |-> FALSE, rowsAffected |-> NullInt, error |-> "", resultRows |-> Undefined]

\* The handler's locals, and a history of the request: before is the promotion
\* state of the script as the handler read it, stored the script's row as the
\* registry held it when the gate was evaluated, guardFailed whether the gate's
\* query failed, canExecute the gate's answer, attempted whether executeSQL was
\* called, pool where the statement went, threw whether it could not be sent or
\* the driver threw, returned and rowCount what the driver answered, logBase
\* the length of the log at that
\* call, logFailed whether logExecution took its catch branch
\* the promotion state of a row: its two flags and their timestamps
PromotionOf(r) == [staging_executed |-> r.staging_executed, staging_executed_at |-> r.staging_executed_at, production_executed |-> r.production_executed, production_executed_at |-> r.production_executed_at]

NoPromotion == [staging_executed |-> FALSE, staging_executed_at |-> NullInt, production_executed |-> FALSE, production_executed_at |-> NullInt]

ExIdle == [pc |-> "idle", scriptId |-> 0, script |-> NoRow, targetDatabase |-> "", executedBy |-> "", before |-> NoPromotion, stored |-> NoGuardRead, guardFailed |-> FALSE, canExecute |-> FALSE, pool |-> "none", attempted |-> FALSE, threw |-> FALSE, returned |-> << >>, rowCount |-> 0, result |-> NoResult, logBase |-> 0, logFailed |-> FALSE, status |-> 0, success |-> FALSE, error |-> "", reported |-> 0]

\* return json({success, error | message}, {status}); the handler's locals die
ExResponse(e, status, success, error) == [e EXCEPT !.pc = "done", !.script = NoRow, !.result = NoResult, !.status = status, !.success = success, !.error = error]

\* variant: an error of the driver is taken for an empty result
executeSQL_Swallow(target, sql, driver) ==
  IF PoolOf(target) = "none" THEN ExecutionFailure("No connection pool available")
  ELSE IF ~driver.ok THEN ExecutionSuccess(sql, << >>, 0)
  ELSE ExecutionSuccess(sql, driver.rows, driver.rowCount)

\* executeSQL(target, sql) for one answer of the driver
executeSQL(target, sql, driver) ==
  IF PoolOf(target) = "none" THEN ExecutionFailure("No connection pool available")
  ELSE IF ~driver.ok THEN ExecutionFailure("statement failed")
  ELSE ExecutionSuccess(sql, driver.rows, driver.rowCount)

\* lines 105-112: the number of rows the message of a success reports
ResultCount(result) ==
  IF result.resultRows # Undefined /\ Len(result.resultRows) > 0 THEN Len(result.resultRows)
  ELSE IF result.rowsAffected = NullInt THEN 0
  ELSE result.rowsAffected

\* lines 67-71: the statement is dispatched and its outcome taken
Dispatch(e, driver) == [e EXCEPT !.pc = "log", !.attempted = TRUE, !.threw = (PoolOf(e.targetDatabase) = "none" \/ ~driver.ok), !.returned = (IF PoolOf(e.targetDatabase) = "none" \/ ~driver.ok THEN << >> ELSE driver.rows), !.rowCount = (IF PoolOf(e.targetDatabase) = "none" \/ ~driver.ok THEN 0 ELSE driver.rowCount), !.logBase = Len(execution_log), !.pool = PoolOf(e.targetDatabase), !.result = executeSQL(e.targetDatabase, e.script.script_content, driver)]

\* lines 34-53 and, for a target other than production, 67-71: the script is
\* read, the form is taken and the statement is dispatched; the history staged
\* is left to the specification, which keeps it or leaves it alone
ExecLoad(id, target, operator, fails, driver) ==
  /\ ex.pc = "idle"
  /\ Len(execution_log) < MaxLog
  /\ LET script == getScriptById(approved_scripts, id, fails)
         executedBy == IF operator = "" THEN "unknown" ELSE operator
         e == [ex EXCEPT !.scriptId = id, !.script = script, !.targetDatabase = target, !.executedBy = executedBy, !.before = IF script = NoRow THEN NoPromotion ELSE PromotionOf(script)]
     IN ex' = IF script = NoRow THEN ExResponse([ex EXCEPT !.scriptId = id], 404, FALSE, "Script not found")
              ELSE IF trim(<<executedBy>>) = << >> THEN ExResponse(e, 200, FALSE, "Executed by field is required")
              ELSE IF target = "production" THEN [e EXCEPT !.pc = "guard"]
              ELSE Dispatch(e, driver)
  /\ UNCHANGED <<envVars, storeVars, now, wh, sync, passes>>

\* lines 55-71: the staging-first gate and, when it opens, the dispatch
ExecGuard(fails, driver) ==
  /\ ex.pc = "guard"
  /\ LET canExecute == canExecuteOnProduction(approved_scripts, ex.scriptId, fails)
         e == [ex EXCEPT !.stored = GuardQuery(approved_scripts, ex.scriptId, FALSE), !.guardFailed = fails, !.canExecute = canExecute]
     IN ex' = IF ~canExecute
              THEN ExResponse(e, 200, FALSE, "Script must be executed successfully in staging first, or have -- DirectProd flag set")
              ELSE Dispatch(e, driver)
  /\ UNCHANGED <<envVars, staged, storeVars, now, wh, sync, passes>>

\* variant: a failed insert into the log is answered as a failure
ExecLog_MaskedByLog(fails) ==
  /\ ex.pc = "log"
  /\ logExecution([scriptName |-> ex.script.script_name,
                   scriptContent |-> ex.script.script_content,
                   executedBy |-> ex.executedBy,
                   targetDatabase |-> ex.targetDatabase,
                   status |-> IF ex.result.success THEN "success" ELSE "error",
                   rowsAffected |-> ex.result.rowsAffected,
                   errorMessage |-> ex.result.error,
                   githubPrUrl |-> ex.script.github_pr_url,
                   approvers |-> ex.script.approvers,
                   resultData |-> ex.result.resultRows], fails)
  /\ ex' = IF ex.result.success /\ ~fails
           THEN [ex EXCEPT !.pc = "status", !.logFailed = fails]
           ELSE ExResponse([ex EXCEPT !.logFailed = fails], 200, FALSE, IF fails THEN "log failed" ELSE ex.result.error)
  /\ UNCHANGED <<envVars, staged, approved_scripts, scriptIdSeq, now, wh, sync, passes>>

\* variant: the entry is written from the row as the registry holds it now
ExecLog_Reread(fails) ==
  /\ ex.pc = "log"
  /\ logExecution([scriptName |-> getScriptById(approved_scripts, ex.scriptId, FALSE).script_name,
                   scriptContent |-> getScriptById(approved_scripts, ex.scriptId, FALSE).script_content,
                   executedBy |-> ex.executedBy,
                   targetDatabase |-> ex.targetDatabase,
                   status |-> IF ex.result.success THEN "success" ELSE "error",
                   rowsAffected |-> ex.result.rowsAffected,
                   errorMessage |-> ex.result.error,
                   githubPrUrl |-> getScriptById(approved_scripts, ex.scriptId, FALSE).github_pr_url,
                   approvers |-> getScriptById(approved_scripts, ex.scriptId, FALSE).approvers,
                   resultData |-> ex.result.resultRows], fails)
  /\ ex' = IF ex.result.success
           THEN [ex EXCEPT !.pc = "status", !.logFailed = fails]
           ELSE ExResponse([ex EXCEPT !.logFailed = fails], 200, FALSE, ex.result.error)
  /\ UNCHANGED <<envVars, staged, approved_scripts, scriptIdSeq, now, wh, sync, passes>>

\* lines 73-91: the attempt is logged; a failed attempt is answered
ExecLog(fails) ==
  /\ ex.pc = "log"
  /\ logExecution([scriptName |-> ex.script.script_name,
                   scriptContent |-> ex.script.script_content,
                   executedBy |-> ex.executedBy,
                   targetDatabase |-> ex.targetDatabase,
                   status |-> IF ex.result.success THEN "success" ELSE "error",
                   rowsAffected |-> ex.result.rowsAffected,
                   errorMessage |-> ex.result.error,
                   githubPrUrl |-> ex.script.github_pr_url,
                   approvers |-> ex.script.approvers,
                   resultData |-> ex.result.resultRows], fails)
  /\ ex' = IF ex.result.success
           THEN [ex EXCEPT !.pc = "status", !.logFailed = fails]
           ELSE ExResponse([ex EXCEPT !.logFailed = fails], 200, FALSE, ex.result.error)
  /\ UNCHANGED <<envVars, staged, approved_scripts, scriptIdSeq, now, wh, sync, passes>>

\* lines 93-117: a successful attempt is recorded on the script and answered
ExecStatus(fails) ==
  /\ ex.pc = "status"
  /\ updateScriptExecutionStatus(ex.scriptId, ex.targetDatabase, fails)
  /\ ex' = [ExResponse(ex, 200, TRUE, "") EXCEPT !.reported = ResultCount(ex.result)]
  /\ UNCHANGED <<envVars, staged, scriptIdSeq, execution_log, now, wh, sync>>
  /\ passes' = IF fails THEN passes ELSE Disturbed

\* the response has been sent
ExecDone ==
  /\ ex.pc = "done"
  /\ ex' = ExIdle
  /\ UNCHANGED <<envVars, staged, storeVars, now, wh, sync, passes>>

-----------------------------------------------------------------------------
(* The system                                                              *)

Signatures(payload) == {NoSignature, <<"sha256=">> \o HmacSha256("k1", payload), <<"sha256=">> \o HmacSha256("k2", payload), <<"sha256=">> \o HmacSha256("k1", "not json")}

InitialRepository == [path \in Paths |-> IF path = Readme THEN BodyPlain ELSE NotFound]

Init ==
  /\ webhookSecret = "k1"
  /\ repository = InitialRepository
  /\ closedPRs = << >>
  /\ mergedSet = {}
  /\ approved_scripts = {}
  /\ scriptIdSeq = 1
  /\ execution_log = << >>
  /\ now = 1
  /\ wh = WhIdle
  /\ sync = SyncIdle
  /\ ex = ExIdle
  /\ passes = NoPasses
  /\ staged = {}

\* the signature the platform computes with the secret it was given
GenuineSignature(payload) == <<"sha256=">> \o HmacSha256("k1", payload)

\* pull requests of the given set are merged
Merging(prs) == \E p \in prs : MergePR(p)

\* pull requests of the given set are closed without being merged
Closing(prs) == \E p \in prs : ClosePR(p)

\* deliveries of the given methods and bodies arrive, signed by the platform or,
\* with forged, in any way, under the given failures of the platform's API
Deliveries(methods, payloads, forged, apiFails) ==
  \E method \in methods, payload \in payloads, failApprovers \in apiFails, failFiles \in apiFails :
     \E signature \in (IF forged THEN Signatures(payload) ELSE {GenuineSignature(payload)}) :
        WebhookReceive(method, payload, signature, failApprovers, failFiles)

\* the webhook handler goes on, under the given failures of the platform's API
\* and of the audit store
WebhookSteps(apiFails, storeFails) ==
  \/ \E fails \in apiFails : WebhookFetch(fails)
  \/ \E fails \in storeFails : WebhookUpsert(fails)
  \/ WebhookDone

\* the webhook handler
Webhook(methods, payloads, forged, apiFails, storeFails) ==
  \/ Deliveries(methods, payloads, forged, apiFails)
  \/ WebhookSteps(apiFails, storeFails)

\* a sync pass starts
SyncStarts(storeFails) == \E fails \in storeFails : SyncStart(fails)

\* the sync pass goes on
SyncSteps(apiFails, storeFails) ==
  \/ \E fails \in apiFails : SyncList(fails)
  \/ \E failApprovers \in apiFails, failFiles \in apiFails : SyncPR(failApprovers, failFiles)
  \/ \E fails \in apiFails : SyncFile(fails)
  \/ \E fails \in storeFails : SyncUpsert(fails)
  \/ SyncReturn
  \/ SyncDone

\* the sync pass
Sync(apiFails, storeFails) ==
  \/ SyncStarts(storeFails)
  \/ SyncSteps(apiFails, storeFails)

\* execution requests arrive for the scripts of the registry and for ids it
\* does not hold
Requests(targets, operators, storeFails) ==
  \E id \in 0..MaxSerial, target \in targets, operator \in operators, fails \in storeFails, driver \in DriverResults :
     ExecLoad(id, target, operator, fails, driver) /\ UNCHANGED staged

\* the execution handler goes on
ExecutionSteps(storeFails) ==
  \/ \E fails \in storeFails, driver \in DriverResults : ExecGuard(fails, driver)
  \/ \E fails \in storeFails : ExecLog(fails)
  \/ \E fails \in storeFails : ExecStatus(fails)
  \/ ExecDone

\* the execution handler
Execution(targets, operators, storeFails) ==
  \/ Requests(targets, operators, storeFails)
  \/ ExecutionSteps(storeFails)

Never == {FALSE}

\* requests taken up while no sync pass runs, and a pass started between requests
DeliveriesBetween(methods, payloads, forged, apiFails) == sync.pc = "idle" /\ Deliveries(methods, payloads, forged, apiFails)

RequestsBetween(targets, operators, storeFails) == sync.pc = "idle" /\ Requests(targets, operators, storeFails)

SyncStartsBetween(storeFails) == wh.pc = "idle" /\ ex.pc = "idle" /\ SyncStarts(storeFails)

\* Promotion: a script is approved, re-approved, synced and executed on staging
\* and on production. Deliveries and execution requests overlap; a sync pass
\* runs between them
Next ==
  \/ Merging({1, 2})
  \/ DeliveriesBetween({"POST"}, {"merged 1", "merged 2"}, FALSE, Never)
  \/ WebhookSteps(Never, BOOLEAN)
  \/ SyncStartsBetween(BOOLEAN)
  \/ SyncSteps(Never, BOOLEAN)
  \/ RequestsBetween({"staging", "production"}, {"dana"}, BOOLEAN)
  \/ ExecutionSteps(BOOLEAN)

Spec == Init /\ [][Next]_vars

\* Execution requests as the form can make them: any target, a blank operator,
\* for scripts that are approved and approved again meanwhile
NextTargets ==
  \/ Merging({1, 2})
  \/ Webhook({"POST"}, {"merged 1", "merged 2"}, FALSE, Never, Never)
  \/ Execution(Targets, Operators, BOOLEAN)

SpecTargets == Init /\ [][NextTargets]_vars

\* Intake: deliveries for merged pull requests and sync passes, one after the
\* other or overlapping, under failures of the platform's API and of the store
NextIntake ==
  \/ Merging({1, 3})
  \/ Webhook({"POST"}, {"merged 1", "merged 3"}, FALSE, BOOLEAN, BOOLEAN)
  \/ Sync(BOOLEAN, BOOLEAN)

SpecIntake == Init /\ [][NextIntake]_vars

\* Authentication: deliveries of any kind, with and without a configured secret
InitAuth ==
  /\ webhookSecret \in {NoSecret, "k1"}
  /\ repository = InitialRepository
  /\ closedPRs = << >>
  /\ mergedSet = {}
  /\ approved_scripts = {}
  /\ scriptIdSeq = 1
  /\ execution_log = << >>
  /\ now = 1
  /\ wh = WhIdle
  /\ sync = SyncIdle
  /\ ex = ExIdle
  /\ passes = NoPasses
  /\ staged = {}

NextAuth ==
  \/ Merging({1, 4})
  \/ Closing({4})
  \/ Webhook({"POST", "GET"}, Bodies \ {"merged 2", "merged 3"}, TRUE, BOOLEAN, BOOLEAN)

SpecAuth == InitAuth /\ [][NextAuth]_vars

\* Re-approval in time: a script is approved, executed and approved again while
\* the clock of the audit database advances
NextTime ==
  \/ Merging({1, 2})
  \/ Tick
  \/ Webhook({"POST"}, {"merged 1", "merged 2"}, FALSE, Never, Never)
  \/ Execution({"staging", "production"}, {"dana"}, Never)

SpecTime == Init /\ [][NextTime]_vars

\* Approvals: pull requests with and without the approvals required go through
\* the webhook and through sync passes, under failures of the platform's API
NextApprovals ==
  \/ Merging({1, 4})
  \/ Webhook({"POST"}, {"merged 1", "merged 4"}, FALSE, BOOLEAN, Never)
  \/ Sync(BOOLEAN, Never)

SpecApprovals == Init /\ [][NextApprovals]_vars

\* Metadata: scripts as authors write them. The file of pull request 1 holds,
\* on the default branch, a statement under a header line that carries the
\* bypass marker in one of its spellings with one of its values, or a target
\* directive, or no header at all, or a header below the first lines
MarkerWords == {<<"D","i","r","e","c","t","P","r","o","d">>, T_directprod, toUpperCase(T_directprod), T_direct_dash_prod, toUpperCase(T_direct_dash_prod), T_direct_us_prod, <<"D","i","r","e","c","t","_","P","r","o","d">>}

MarkerValues == {<< >>, <<":"," ","t","r","u","e">>, <<":"," ","y","e","s">>, <<":"," ","1">>, <<":","T","R","U","E">>, <<" ","Y","e","s">>, <<":"," ","f","a","l","s","e">>, <<":"," ","n","o">>}

MarkerLines == {<<"-","-"," ">> \o w \o v : w \in MarkerWords, v \in MarkerValues}

TargetLines == {<<"-","-"," ","T","a","r","g","e","t",":"," ","p","r","o","d","u","c","t","i","o","n">>, <<"-","-"," ","T","a","r","g","e","t",":"," ","s","t","a","g","i","n","g">>, <<"-","-"," ","T","a","r","g","e","t",":"," ","P","R","O","D","U","C","T","I","O","N">>, <<"-","-"," ","T","a","r","g","e","t",":","S","t","a","g","i","n","g">>, <<"-","-"," ","T","a","r","g","e","t",":"," ","q","a">>, <<"-","-"," ","T","a","r","g","e","t",":">>, <<"-","-"," ","T","a","r","g","e","t","D","a","t","a","b","a","s","e",":"," ","p","r","o","d","u","c","t","i","o","n">>, <<"-","-"," ","T","a","r","g","e","t","D","a","t","a","b","a","s","e",":"," ","s","t","a","g","i","n","g">>}

AuthorLine == <<"-","-"," ","A","u","t","h","o","r",":"," ","d","a","n","a">>

Statement == <<"S","E","L","E","C","T"," ","1">>

\* n empty lines
RECURSIVE EmptyLines(_)
EmptyLines(n) == IF n = 0 THEN << >> ELSE <<"\n">> \o EmptyLines(n - 1)

\* the header line first, second after the author's line, or below the first
\* MetadataLines lines
Placed(header) ==
  {header \o <<"\n">> \o Statement,
   AuthorLine \o <<"\n">> \o header \o <<"\n">> \o Statement,
   EmptyLines(MetadataLines) \o header \o <<"\n">> \o Statement}

\* the last: "-- DirectProd\n-- see the direct_prod runbook\nSELECT 1"
Scripts == {Statement, AuthorLine \o <<"\n">> \o Statement, <<"-","-"," ","D","i","r","e","c","t","P","r","o","d","\n","-","-"," ","s","e","e"," ","t","h","e"," ","d","i","r","e","c","t","_","p","r","o","d"," ","r","u","n","b","o","o","k","\n">> \o Statement} \cup UNION {Placed(header) : header \in MarkerLines \cup TargetLines}

InitMetadata ==
  /\ webhookSecret = "k1"
  /\ repository \in {[InitialRepository EXCEPT ![A_sql] = script] : script \in Scripts}
  /\ closedPRs = <<1>>
  /\ mergedSet = {1}
  /\ approved_scripts = {}
  /\ scriptIdSeq = 1
  /\ execution_log = << >>
  /\ now = 1
  /\ wh = WhIdle
  /\ sync = SyncIdle
  /\ ex = ExIdle
  /\ passes = NoPasses
  /\ staged = {}

NextMetadata == Webhook({"POST"}, {"merged 1"}, FALSE, Never, Never)

SpecMetadata == InitMetadata /\ [][NextMetadata]_vars

\* Result capture: statements of either kind, with and without comments
\* before and after them, are registered and run on staging, where the driver
\* answers with no row, with one, with as many as are kept, and with more
Statements ==
  {<<"S","E","L","E","C","T"," ","1">>,
   <<"s","e","l","e","c","t"," ","2">>,
   <<" "," ","\n"," ","S","e","l","e","c","t"," ","3">>,
   <<"-","-"," ","n","o","t","e","\n","S","E","L","E","C","T"," ","1">>,
   <<"/","*"," ","n","o","t","e"," ","*","/"," ","s","e","l","e","c","t"," ","1">>,
   <<"/","*"," ","a","\n","b"," ","*","/","\n","-","-"," ","c","\n","s","e","l","e","c","t"," ","1"," ","-","-"," ","d">>,
   <<"U","P","D","A","T","E"," ","t">>,
   <<"-","-"," ","S","E","L","E","C","T","\n","U","P","D","A","T","E"," ","t">>,
   <<"/","*"," ","S","E","L","E","C","T"," ","*","/"," ","D","E","L","E","T","E"," ","F","R","O","M"," ","t">>,
   <<"u","p","d","a","t","e"," ","t"," ","-","-"," ","s","e","l","e","c","t">>}

\* n rows
RowsOf(n) == [i \in 1..n |-> ToString(i)]

\* pool.query answers a SELECT with its rows and their number, another
\* statement with the number of rows it affected and the rows it returns, or throws
CaptureResults ==
  {[ok |-> FALSE, rows |-> << >>, rowCount |-> 0]}
    \cup {[ok |-> TRUE, rows |-> RowsOf(n), rowCount |-> n] : n \in {0, 1, MaxResultRows - 1, MaxResultRows, MaxResultRows + 1, MaxResultRows + 50}}
    \cup {[ok |-> TRUE, rows |-> << >>, rowCount |-> 3]}

RECURSIVE Uncommented(_)
\* the statement as the database reads it: without the white space and the
\* comments before its first word
Uncommented(s) ==
  IF s = << >> THEN << >>
  ELSE IF Head(s) \in WhiteSpace THEN Uncommented(Tail(s))
  ELSE IF MatchesAt(s, 1, <<"-","-">>) THEN (IF IndexOfFrom(s, <<"\n">>, 1) = 0 THEN << >> ELSE Uncommented(From(s, IndexOfFrom(s, <<"\n">>, 1) + 1)))
  ELSE IF MatchesAt(s, 1, <<"/","*">>) THEN (IF IndexOfFrom(s, <<"*","/">>, 3) = 0 THEN s ELSE Uncommented(From(s, IndexOfFrom(s, <<"*","/">>, 3) + 2)))
  ELSE s

\* the statement is a SELECT for the database
ReadsRows(sql) == MatchesAt(toLowerCase(Uncommented(sql)), 1, toLowerCase(T_SELECT))

InitCapture ==
  /\ webhookSecret = "k1"
  /\ repository \in {[InitialRepository EXCEPT ![A_sql] = statement] : statement \in Statements}
  /\ closedPRs = <<1>>
  /\ mergedSet = {1}
  /\ approved_scripts = {}
  /\ scriptIdSeq = 1
  /\ execution_log = << >>
  /\ now = 1
  /\ wh = WhIdle
  /\ sync = SyncIdle
  /\ ex = ExIdle
  /\ passes = NoPasses
  /\ staged = {}

\* a request to run a registered script on staging; a SELECT is answered with
\* as many rows as the driver counts
CaptureRequests ==
  \E id \in 1..MaxSerial, driver \in CaptureResults :
     /\ \A r \in approved_scripts : (r.id = id /\ ReadsRows(r.script_content)) => driver.rowCount = Len(driver.rows)
     /\ ExecLoad(id, "staging", "dana", FALSE, driver)
     /\ UNCHANGED staged

NextCapture ==
  \/ Webhook({"POST"}, {"merged 1"}, FALSE, Never, Never)
  \/ CaptureRequests
  \/ ExecLog(FALSE)
  \/ ExecStatus(FALSE)
  \/ ExecDone

SpecCapture == InitCapture /\ [][NextCapture]_vars

\* Tally: sync passes over a pull request with two scripts and one that deletes
\* one of them, under failures of the platform's API and of the store
NextTally ==
  \/ Merging({3, 5})
  \/ Sync(BOOLEAN, BOOLEAN)

SpecTally == Init /\ [][NextTally]_vars

\* Backlog: pull request 1 was merged, and pull requests closed without a
\* merge have been updated since, as many as fill the page of getMergedPRs or
\* one less; more are closed and merged while sync passes run
InitBacklog ==
  /\ webhookSecret = "k1"
  /\ repository = [InitialRepository EXCEPT ![A_sql] = BodyDirect]
  /\ closedPRs \in {[i \in 1..k |-> 100 + i] \o <<1>> : k \in {0, MergedPRLimit - 1, MergedPRLimit}}
  /\ mergedSet = {1}
  /\ approved_scripts = {}
  /\ scriptIdSeq = 1
  /\ execution_log = << >>
  /\ now = 1
  /\ wh = WhIdle
  /\ sync = SyncIdle
  /\ ex = ExIdle
  /\ passes = NoPasses
  /\ staged = {}

NextBacklog ==
  \/ Merging({2})
  \/ Closing({4})
  \/ Sync(Never, Never)

SpecBacklog == InitBacklog /\ [][NextBacklog]_vars

\* Staging first: scripts are approved, run and approved again with another
\* text, and the texts that ran successfully on staging are kept as history
RecordedRequests(targets, storeFails) ==
  \E id \in 0..MaxSerial, target \in targets, fails \in storeFails, driver \in DriverResults :
     /\ ExecLoad(id, target, "dana", fails, driver)
     /\ staged' = IF ex'.attempted /\ ex'.pool = "staging" /\ ~ex'.threw THEN staged \cup {ex'.script.script_content} ELSE staged

NextStaging ==
  \/ Merging({1, 2})
  \/ Webhook({"POST"}, {"merged 1", "merged 2"}, FALSE, Never, Never)
  \/ RecordedRequests({"staging", "production"}, BOOLEAN)
  \/ ExecutionSteps(BOOLEAN)

SpecStaging == Init /\ [][NextStaging]_vars

\* Overlap: deliveries for two pull requests that carry the same script arrive
\* while sync passes run
NextOverlap ==
  \/ Merging({1, 2})
  \/ Webhook({"POST"}, {"merged 1", "merged 2"}, FALSE, Never, Never)
  \/ Sync(Never, Never)

SpecOverlap == Init /\ [][NextOverlap]_vars

-----------------------------------------------------------------------------
(* Properties                                                              *)

\* the script row with the given content, as the registry holds it
RowsWith(content) == {r \in approved_scripts : r.script_content = content}

\* C1: in every reachable state of the registry no row has production_executed
\* true while staging_executed and direct_prod are both false
C1_ProductionEarned ==
  \A r \in approved_scripts : ~(r.production_executed /\ ~r.staging_executed /\ ~r.direct_prod)

\* the gate of a production request has been evaluated
GateEvaluated == ex.targetDatabase = "production" /\ ex.stored.read # "none"

\* the request was answered with a refusal and nothing was dispatched
Refused == ex.pc = "done" /\ ~ex.attempted /\ ex.pool = "none" /\ ~ex.success

\* the step in which the gate refuses leaves every script as it was
RefusalKeepsRegistry == [][(ex.pc = "guard" /\ ex'.pc = "done") => approved_scripts' = approved_scripts]_vars

\* C2, as stated: a production request for a script whose stored staging_executed
\* and direct_prod are both false is refused with nothing dispatched and no
\* script changed, and a request with either of them true is permitted
C2_GateAsStated ==
  /\ [](GateEvaluated => IF ~ex.stored.staging_executed /\ ~ex.stored.direct_prod THEN Refused ELSE ex.attempted)
  /\ RefusalKeepsRegistry

\* C2: a production request for a script whose stored staging_executed and
\* direct_prod are both false is refused with nothing dispatched and no script
\* changed; a request with either of them true is permitted when the gate's
\* query of the registry succeeds, and refused like the former when it fails
C2_Gate ==
  /\ [](GateEvaluated => IF (~ex.stored.staging_executed /\ ~ex.stored.direct_prod) \/ ex.guardFailed THEN Refused ELSE ex.attempted)
  /\ RefusalKeepsRegistry

\* a production request for a script with neither flag has been refused
C2_Witness ==
  /\ GateEvaluated
  /\ ex.stored.read = "row"
  /\ ~ex.guardFailed
  /\ ~ex.stored.staging_executed
  /\ ~ex.stored.direct_prod
  /\ Refused

\* the log only grows at its end, by one entry, in the logging step of a request
AppendOnly ==
  [][/\ Len(execution_log') \in {Len(execution_log), Len(execution_log) + 1}
     /\ SubSeq(execution_log', 1, Len(execution_log)) = execution_log
     /\ execution_log' # execution_log => ex.pc = "log"]_vars

C4_FailureKeepsPromotion ==
  (ex.pc = "done" /\ ex.attempted /\ ex.threw) =>
     /\ ~ex.success
     /\ \A r \in approved_scripts : r.id = ex.scriptId => PromotionOf(r) = ex.before

\* the driver threw on a statement sent to a pool
C4_Witness ==
  /\ ex.pc = "done"
  /\ ex.attempted
  /\ ex.threw
  /\ ex.pool \in {"staging", "production"}
  /\ \E r \in approved_scripts : r.id = ex.scriptId

\* C5: a promotion flag that is true stays true in every step, whichever
\* operation takes it
C5_FlagsMonotone ==
  [][\A r \in approved_scripts :
       \E q \in approved_scripts' :
          /\ q.id = r.id
          /\ r.staging_executed => q.staging_executed
          /\ r.production_executed => q.production_executed]_vars

\* a script that ran on production under the bypass marker has been approved
\* again without it
C5_Witness ==
  \E r \in RowsWith(BodyPlain) : r.github_pr_url = "pr/2" /\ r.production_executed /\ ~r.direct_prod

\* C6: the registry holds one row per script name
C6_OneRowPerName ==
  /\ \A r, q \in approved_scripts : r.script_name = q.script_name => r = q
  /\ Cardinality(approved_scripts) = Cardinality({r.script_name : r \in approved_scripts})

\* two scripts are registered and one of them has been upserted a second time
C6_Witness ==
  /\ Cardinality(approved_scripts) = 2
  /\ scriptIdSeq >= 4

\* the webhook's upsert of the file at the head of its queue takes effect
WebhookUpsertTakes == wh.pc = "upsert" /\ wh' # wh /\ scriptIdSeq' # scriptIdSeq

\* C7: an upsert of the webhook for a name the registry holds overwrites content,
\* origin, approvers and direct_prod of its row, sets approved_at to the present,
\* and keeps the promotion flags and their timestamps
C7_UpsertOverwrites ==
  [][WebhookUpsertTakes =>
       \A r \in RowsNamed(approved_scripts, baseName(Head(wh.queue).filename)) :
          /\ RowsNamed(approved_scripts', r.script_name) # {}
          /\ \A q \in RowsNamed(approved_scripts', r.script_name) :
               /\ q.id = r.id
               /\ q.script_content = wh.content
               /\ q.github_pr_url = wh.prUrl
               /\ q.approvers = wh.approvers
               /\ q.direct_prod = (parseSQLMetadata(wh.content).directProd = {TRUE})
               /\ q.approved_at = now
               /\ PromotionOf(q) = PromotionOf(r)]_vars

\* a script that ran on staging has been approved again at a later time
C7_Witness ==
  \E r \in approved_scripts :
     /\ r.github_pr_url = "pr/2"
     /\ r.script_content = BodyPlain
     /\ ~r.direct_prod
     /\ r.approved_at = 2
     /\ r.staging_executed
     /\ r.staging_executed_at = 1

\* C8: a sync pass that follows a sync pass, with no pull request merged and no
\* other write to the registry since the former started, reports synced = 0 and
\* errors = 0 and leaves the registry as the former left it
C8_SecondPassIdle ==
  [][(sync.pc = "pr" /\ sync'.pc = "done" /\ passes.prior /\ passes.clean) =>
       /\ sync'.stats.synced = 0
       /\ sync'.stats.errors = 0
       /\ approved_scripts' = passes.registry]_vars

\* C9: an upsert of a sync pass leaves every row whose name the registry held
\* when the pass started as it is
C9_SyncOnlyBackfills ==
  [][(sync.pc = "upsert" /\ sync' # sync) =>
       \A r \in approved_scripts : r.script_name \in sync.startNames => r \in approved_scripts']_vars

\* the delivery's signature is the keyed hash of its body under the secret
SignatureMatches == wh.signature = <<"sha256=">> \o HmacSha256(webhookSecret, wh.payload)

\* C10: a POST delivery is answered 401 exactly when a secret is configured and
\* the signature is not the keyed hash of the body; a delivery answered 401 has
\* called the platform's API for nothing and has written nothing
C10_Authentication ==
  /\ [](wh.pc # "idle" /\ wh.method = "POST" =>
          /\ wh.status = 401 <=> ~(webhookSecret = NoSecret \/ SignatureMatches)
          /\ wh.status = 401 => (wh.pc = "done" /\ wh.apiCalls = 0 /\ wh.results = << >>))
  /\ [][wh'.status = 401 => approved_scripts' = approved_scripts]_vars

\* a delivery for a merged pull request, signed with another key, was rejected
C10_Witness ==
  /\ wh.pc = "done"
  /\ wh.status = 401
  /\ wh.payload = "merged 1"
  /\ wh.signature = <<"sha256=">> \o HmacSha256("k2", wh.payload)

\* the users who left an approving review on pull request p
ApproversOf(p) == {PRData[p].reviews[i].user : i \in {j \in DOMAIN PRData[p].reviews : PRData[p].reviews[j].state = "APPROVED"}}

\* the pull requests a row's origin URL names
OriginsOf(r) == {p \in PRs : PRData[p].html_url = r.github_pr_url}

\* C11: every registry row was written from a pull request with at least the
\* minimum number of approvers and holds as many; the webhook answers a merged
\* pull request below the minimum 200 "Insufficient approvals" with no file
\* processed, and a sync pass counts it as skipped and moves on, the registry
\* unchanged
C11_MinimumApprovals ==
  /\ [](\A r \in approved_scripts :
          /\ Len(r.approvers) >= MinApprovals
          /\ \A p \in OriginsOf(r) : Cardinality(ApproversOf(p)) >= MinApprovals)
  /\ []((wh.pc # "idle" /\ wh.prNumber \in PRs /\ Cardinality(ApproversOf(wh.prNumber)) < MinApprovals) =>
          /\ wh.pc = "done"
          /\ wh.status = 200
          /\ wh.message = "Insufficient approvals"
          /\ wh.results = << >>)
  /\ [][(sync.pc = "pr" /\ sync.prs # << >> /\ sync' # sync /\ Cardinality(ApproversOf(Head(sync.prs))) < MinApprovals) =>
          /\ sync'.pc = "pr"
          /\ sync'.prs = Tail(sync.prs)
          /\ sync'.stats = [sync.stats EXCEPT !.skipped = @ + 1]
          /\ approved_scripts' = approved_scripts]_vars

\* the delivery for the pull request with a single approver has been answered,
\* after a sync pass skipped that pull request
C11_Witness ==
  /\ wh.pc = "done"
  /\ wh.payload = "merged 4"
  /\ wh.message = "Insufficient approvals"
  /\ sync.pc = "done"
  /\ sync.stats.skipped = 1
  /\ mergedSet = {4}

\* the delivery in hand is a POST that passed signature verification
Verified == wh.pc # "idle" /\ wh.method = "POST" /\ wh.status # 401

\* C12: a verified delivery whose body is no well-formed event payload is
\* answered 400, one whose event is no merge is answered 200 "ignoring"; either
\* way the platform's API is not called and nothing is written
C12_MalformedAndIgnored ==
  Verified =>
     /\ wh.payload \in {"not json", "null"} => wh.status = 400
     /\ wh.payload \in {"opened 1", "closed 4"} => (wh.status = 200 /\ wh.message = "Not a merged PR, ignoring")
     /\ wh.payload \in {"not json", "null", "opened 1", "closed 4"} => (wh.pc = "done" /\ wh.apiCalls = 0 /\ wh.results = << >>)

\* the changed files of pull request p that end in .sql and were not removed
QualifyingFiles(p) == sqlFilesOf(PRData[p].files)

\* C13: the summary of a processed delivery has one entry for each qualifying
\* file of the pull request, in order, a file whose fetch failed included
C13_EntryPerFile ==
  (wh.pc = "done" /\ wh.message = "Webhook processed successfully") =>
     /\ Len(wh.results) = Len(QualifyingFiles(wh.prNumber))
     /\ \A i \in DOMAIN wh.results : wh.results[i].filename = QualifyingFiles(wh.prNumber)[i].filename

\* C14: what each call to the review platform hands its caller when the call
\* fails differs from what it hands over when the call succeeds: the list of
\* merged pull requests, the approvers and the files of a merged pull request,
\* and the content of a file of the default branch
C14_FailureDistinct ==
  /\ getMergedPRs(closedPRs, mergedSet, MergedPRLimit, TRUE) # getMergedPRs(closedPRs, mergedSet, MergedPRLimit, FALSE)
  /\ \A p \in mergedSet : getPRApprovers(p, TRUE) # getPRApprovers(p, FALSE)
  /\ \A p \in mergedSet : getPRFiles(p, TRUE) # getPRFiles(p, FALSE)
  /\ \A path \in Paths : repository[path] # NotFound => fetchScriptFromGitHub(repository, path, TRUE) # fetchScriptFromGitHub(repository, path, FALSE)

\* a step of the sync pass that adds k to skipped and leaves errors alone
CountsSkipped(k) == sync'.stats.skipped = sync.stats.skipped + k /\ sync'.stats.errors = sync.stats.errors

\* C15: the sync pass counts a pull request or file as skipped exactly when it
\* is an expected no-op: too few approvers, no qualifying file, a name already
\* known. A pull request with enough approvers and a qualifying file is never
\* counted as skipped, whatever the platform's calls do, and a no-op never
\* adds to errors
C15_ErrorsTally ==
  [][/\ (sync.pc = "pr" /\ sync.prs # << >> /\ sync' # sync) =>
          IF Cardinality(ApproversOf(Head(sync.prs))) < MinApprovals \/ QualifyingFiles(Head(sync.prs)) = << >>
          THEN CountsSkipped(1)
          ELSE CountsSkipped(0)
     /\ (sync.pc = "file" /\ sync' # sync) =>
          IF baseName(Head(sync.queue).filename) \in sync.existingSet
          THEN CountsSkipped(1)
          ELSE sync'.stats.skipped = sync.stats.skipped]_vars

\* the step that records a successful execution on its script
Recording == ex.pc = "status" /\ ex' # ex

\* row q is row r but for the flag of environment env and its timestamp
SameButFlag(q, r, env) ==
  IF env = "staging"
  THEN [q EXCEPT !.staging_executed = r.staging_executed, !.staging_executed_at = r.staging_executed_at] = r
  ELSE [q EXCEPT !.production_executed = r.production_executed, !.production_executed_at = r.production_executed_at] = r

\* row q carries the flag of environment env, set at time ts
Flagged(q, env, ts) ==
  IF env = "staging"
  THEN q.staging_executed /\ q.staging_executed_at = ts
  ELSE q.production_executed /\ q.production_executed_at = ts

\* no step but the recording one sets a flag or a timestamp: rows stay as
\* promoted as they were and new rows come with no flag
OnlyRecordingPromotes ==
  [][~Recording =>
       \A q \in approved_scripts' :
          IF \E r \in approved_scripts : r.id = q.id
          THEN \A r \in approved_scripts : r.id = q.id => PromotionOf(q) = PromotionOf(r)
          ELSE PromotionOf(q) = NoPromotion]_vars

UpsertTakes(caller) == caller.pc = "upsert" /\ scriptIdSeq' # scriptIdSeq

\* the statement for the given name inserted a row if the name had none and
\* updated its row if it had one, in the one step, leaving one row for the name
InsertedOrUpdated(name) ==
  /\ Cardinality(RowsNamed(approved_scripts', name)) = 1
  /\ Cardinality(approved_scripts') = Cardinality(approved_scripts) + (IF RowsNamed(approved_scripts, name) = {} THEN 1 ELSE 0)
  /\ {r.id : r \in approved_scripts} \subseteq {r.id : r \in approved_scripts'}

\* C17: each upsert of a delivery or of a sync pass is one step that inserts
\* or updates, so that deliveries and passes that overlap on a name no row
\* carried leave exactly one row for it, in every interleaving
C17_AtomicUpsert ==
  /\ [][(UpsertTakes(wh) /\ wh' # wh) => InsertedOrUpdated(baseName(Head(wh.queue).filename))]_vars
  /\ [][(UpsertTakes(sync) /\ sync' # sync) => InsertedOrUpdated(baseName(Head(sync.queue).filename))]_vars
  /\ [](\A r, q \in approved_scripts : r.script_name = q.script_name => r.id = q.id)

\* a delivery has registered a.sql during a sync pass that found the name
\* unregistered and registered it as well: two statements, one row
C17_Witness ==
  /\ sync.pc \in {"pr", "file", "upsert"}
  /\ baseName(A_sql) \notin sync.startNames
  /\ baseName(A_sql) \in sync.existingSet
  /\ sync.stats.synced = 1
  /\ wh.pc = "done"
  /\ wh.payload = "merged 1"
  /\ wh.results # << >>
  /\ wh.results[1].success
  /\ scriptIdSeq = 3
  /\ Cardinality(RowsNamed(approved_scripts, baseName(A_sql))) = 1

\* the first MetadataLines lines of a script
LeadingLines(content) == Range(sliceHead(splitLines(content), MetadataLines))

\* a line in lower case with its white space removed
Squeezed(line) == LET Ink(c) == c \notin WhiteSpace IN SelectSeq(toLowerCase(line), Ink)

MarkerSpellings == {T_directprod, T_direct_dash_prod, T_direct_us_prod}

\* the line carries the marker, in whatever spelling and case
CarriesMarker(line) == \E sp \in MarkerSpellings : includes(toLowerCase(line), sp)

\* the line is a comment that holds the marker alone or with true, yes or 1
MarksBypass(line) ==
  \E sp \in MarkerSpellings, colon \in {<< >>, <<":">>}, value \in {<< >>, T_true, T_yes, T_one} :
     Squeezed(line) = <<"-","-">> \o sp \o colon \o value

\* C18: a registered script has direct_prod true when one of its leading lines
\* holds the marker, in any spelling and case, alone or with true, yes or 1,
\* and false when none of its leading lines carries the marker
C18_BypassFlag ==
  \A r \in approved_scripts :
     /\ (\E line \in LeadingLines(r.script_content) : MarksBypass(line)) => r.direct_prod
     /\ (\A line \in LeadingLines(r.script_content) : ~CarriesMarker(line)) => ~r.direct_prod

P_TargetDatabase == <<"-","-"," ","T","a","r","g","e","t","D","a","t","a","b","a","s","e",":">>

\* the value of the line's target directive, in lower case; Undefined when the
\* line is no target directive
DirectiveOf(line) ==
  IF startsWith(line, P_TargetDatabase) THEN toLowerCase(trim(replaceFirst(line, P_TargetDatabase)))
  ELSE IF startsWith(line, P_Target) THEN toLowerCase(trim(replaceFirst(line, P_Target)))
  ELSE Undefined

\* C19: a script is registered for the environment its target directive names,
\* written -- Target: or -- TargetDatabase: on one of the first lines with the
\* value staging or production in any case, and for staging otherwise
C19_ResolvedTarget ==
  \A r \in approved_scripts :
     r.target_database = IF \E line \in LeadingLines(r.script_content) : DirectiveOf(line) = T_production
                         THEN "production"
                         ELSE "staging"

\* the entry the request in hand has written to the log
LastEntry == execution_log[Len(execution_log)]

\* the request in hand ran its statement and logged it
Logged == ex.pc = "status" /\ ~ex.logFailed /\ Len(execution_log) = ex.logBase + 1

\* C20: the entry of a successful SELECT that returned n > 0 rows holds the
\* first min(n, 100) of them; that of a SELECT that returned none, and of any
\* other statement, holds no rows, and the result carries the affected-row count
C20_ResultCapture ==
  Logged =>
     IF ReadsRows(ex.script.script_content) /\ Len(ex.returned) > 0
     THEN LastEntry.result_data = SubSeq(ex.returned, 1, IF Len(ex.returned) < 100 THEN Len(ex.returned) ELSE 100)
     ELSE LastEntry.result_data = Undefined /\ ex.result.rowsAffected = ex.rowCount

\* a commented SELECT returned 150 rows and its entry holds 100 of them
C20_Witness ==
  /\ Logged
  /\ ReadsRows(ex.script.script_content)
  /\ startsWith(ex.script.script_content, <<"/","*">>)
  /\ Len(ex.returned) = 150
  /\ Len(LastEntry.result_data) = 100

\* the script names of the qualifying files of the merged pull requests
MergedNames == UNION {{baseName(QualifyingFiles(p)[i].filename) : i \in DOMAIN QualifyingFiles(p)} : p \in mergedSet}

\* the name of the file the sync pass has in hand
SyncName == baseName(Head(sync.queue).filename)

Tally(y) == y.stats.synced + y.stats.skipped + y.stats.errors

\* the pass is done with the file in hand and turns to the next file of the
\* pull request or, after its last file, to the next pull request
FileDone ==
  IF Len(sync.queue) > 1
  THEN sync'.pc = "file" /\ sync'.queue = Tail(sync.queue) /\ sync'.prs = sync.prs
  ELSE sync'.pc = "pr" /\ sync'.queue = << >> /\ sync'.prs = Tail(sync.prs)

\* C22: a sync pass counts every listed pull request it skips as a whole once,
\* and of the others every qualifying file once, whatever failed before; it
\* returns when the list is exhausted; synced grows with the upserts of the
\* pass that succeed and with nothing else
C22_EveryItemOnce ==
  /\ [][(sync.pc = "pr" /\ sync.prs # << >> /\ sync' # sync) =>
          \/ sync'.pc = "pr" /\ sync'.prs = Tail(sync.prs) /\ Tally(sync') = Tally(sync) + 1 /\ sync'.stats.synced = sync.stats.synced
          \/ sync'.pc = "file" /\ sync'.prs = sync.prs /\ sync'.queue = QualifyingFiles(Head(sync.prs)) /\ sync'.stats = sync.stats]_vars
  /\ [][(sync.pc \in {"file", "upsert"} /\ sync' # sync) =>
          \/ sync.pc = "file" /\ sync'.pc = "upsert" /\ sync'.queue = sync.queue /\ sync'.prs = sync.prs /\ sync'.stats = sync.stats
          \/ Tally(sync') = Tally(sync) + 1 /\ FileDone]_vars
  /\ [][(sync.pc \notin {"idle", "done"} /\ sync' # sync) =>
          (sync'.stats.synced = sync.stats.synced + (IF sync.pc = "upsert" /\ scriptIdSeq' # scriptIdSeq THEN 1 ELSE 0))]_vars
  /\ [](sync.pc = "list" => Tally(sync) = 0)
  /\ [](sync.pc = "done" => sync.prs = << >> /\ sync.queue = << >>)

\* a pass over both pull requests has counted three files: b.sql and c.sql
\* registered, a.sql, deleted since, not fetched
C22_Witness ==
  /\ sync.pc = "done"
  /\ mergedSet = {3, 5}
  /\ sync.stats = [synced |-> 2, skipped |-> 0, errors |-> 1]
  /\ Cardinality(approved_scripts) = 2

\* the merged pull requests, most recently updated first
MergedNewestFirst == LET IsMerged(p) == p \in mergedSet IN SelectSeq(closedPRs, IsMerged)

\* C23: a sync pass examines the 50 most recently merged pull requests, newest
\* first, however many pull requests were closed without a merge
C23_LatestMerges ==
  [][(sync.pc = "list" /\ sync' # sync) => sync'.prs = sliceHead(MergedNewestFirst, 50)]_vars

\* the error of a statement that was not run or that the driver rejected
StatementErrors == {"No connection pool available", "statement failed"}

\* C24: a request whose statement was dispatched is answered by the statement's
\* outcome alone: success with the number of rows when the statement ran,
\* failure with the statement's error when it did not, whether or not the
\* insert into the log and the update of the flags failed, and neither failure
\* keeps the handler from going on to its response
C24_OutcomeBySqlAlone ==
  /\ []((ex.pc = "done" /\ ex.attempted) =>
          /\ ex.status = 200
          /\ ex.success = ~ex.threw
          /\ ex.success => (ex.error = "" /\ ex.reported \in {Len(ex.returned), ex.rowCount, 100})
          /\ ~ex.success => ex.error \in StatementErrors)
  /\ [](ex.pc = "log" => (ENABLED ExecLog(TRUE)) /\ (ENABLED ExecLog(FALSE)))
  /\ [](ex.pc = "status" => (ENABLED ExecStatus(TRUE)) /\ (ENABLED ExecStatus(FALSE)))
  /\ [][(ex.pc = "status" /\ ex' # ex) => (ex'.pc = "done" /\ ex'.success)]_vars

\* a statement ran on staging, neither its log entry nor its flag could be
\* written, and the request was answered as a success
C24_Witness ==
  /\ ex.pc = "done"
  /\ ex.success
  /\ ex.targetDatabase = "staging"
  /\ ex.logFailed
  /\ execution_log = << >>
  /\ \E r \in approved_scripts : r.id = ex.scriptId /\ ~r.staging_executed

\* the log holds a success entry for the script name and the environment
LoggedSuccess(name, env) ==
  \E i \in DOMAIN execution_log :
     /\ execution_log[i].script_name = name
     /\ execution_log[i].target_database = env
     /\ execution_log[i].status = "success"

\* C25: a script whose staging_executed (production_executed) flag is true has
\* a success entry for staging (production) in the log
C25_LogAheadOfFlags ==
  \A r \in approved_scripts :
     /\ r.staging_executed => LoggedSuccess(r.script_name, "staging")
     /\ r.production_executed => LoggedSuccess(r.script_name, "production")

\* C26: a statement is dispatched to the pool of staging or of production and
\* to no other, whatever target the request names
C26_ExecutionPools ==
  ex.attempted => ex.pool \in {"none", "staging", "production"}

\* C27: a text dispatched to production through the gate for a script whose
\* direct_prod is false ran successfully on staging before
C27_StagedTextOnly ==
  (ex.attempted /\ ex.pool = "production" /\ ex.pc \in {"log", "status"} /\ ex.stored.read = "row" /\ ~ex.stored.direct_prod) =>
     ex.script.script_content \in staged

\* what an upsert writes of a row
Approval(r) == [script_content |-> r.script_content, github_pr_url |-> r.github_pr_url, approvers |-> r.approvers, direct_prod |-> r.direct_prod, approved_at |-> r.approved_at]

\* C28: the upsert of a sync pass for a name that a delivery registered after
\* the pass started leaves content, origin, approvers, direct_prod and
\* approved_at of the row as the delivery wrote them
C28_SyncKeepsDelivery ==
  [][(UpsertTakes(sync) /\ sync' # sync /\ SyncName \notin sync.startNames) =>
       \A r \in RowsNamed(approved_scripts, SyncName) :
          \A q \in RowsNamed(approved_scripts', SyncName) : Approval(q) = Approval(r)]_vars

\* C29: the entry an attempt writes holds the name, the text, the approvers and
\* the origin of the script as the request read them before the dispatch,
\* whatever the registry holds when the entry is written
C29_EntrySnapshot ==
  [][(ex.pc = "log" /\ execution_log' # execution_log) =>
       /\ Len(execution_log') = Len(execution_log) + 1
       /\ execution_log'[Len(execution_log')].script_name = ex.script.script_name
       /\ execution_log'[Len(execution_log')].script_content = ex.script.script_content
       /\ execution_log'[Len(execution_log')].approvers = ex.script.approvers
       /\ execution_log'[Len(execution_log')].github_pr_url = ex.script.github_pr_url
       /\ execution_log'[Len(execution_log')].target_database = ex.targetDatabase]_vars

\* the text of pull request 1 was dispatched and logged with its origin, and
\* the registry holds the text of pull request 2 before the request is answered
C29_Witness ==
  /\ ex.pc = "status"
  /\ Logged
  /\ LastEntry.script_content = BodyDirect
  /\ LastEntry.github_pr_url = "pr/1"
  /\ \E r \in approved_scripts : r.id = ex.scriptId /\ r.script_content = BodyPlain /\ r.github_pr_url = "pr/2"

\* the line is a comment that holds the marker, unseparated, alone or with
\* true, yes or 1
MarksBypassPlainly(line) ==
  \E colon \in {<< >>, <<":">>}, value \in {<< >>, T_true, T_yes, T_one} :
     Squeezed(line) = <<"-","-">> \o T_directprod \o colon \o value

\* C30: a registered script has direct_prod false when none of its leading
\* lines is a marker comment with no value or with true, yes or 1, a marker
\* with another value not counting, and true when one of them is, whatever
\* the lines after it contain
C30_ExplicitValue ==
  \A r \in approved_scripts :
     /\ (\A line \in LeadingLines(r.script_content) : ~MarksBypass(line)) => ~r.direct_prod
     /\ (\E line \in LeadingLines(r.script_content) : MarksBypassPlainly(line)) => r.direct_prod

====
